---- MODULE Spec2Model ----
(***************************************************************************)
(* The task-execution workflow of api/agent/task_execution_agent.py (a     *)
(* LangGraph StateGraph with a MemorySaver checkpointer) driven by the     *)
(* websocket endpoint of api/routers/endpoint/task_execution.py, for one   *)
(* thread id.                                                              *)
(*                                                                         *)
(* Python strings built by concatenation (tool_response, final_response)   *)
(* are sequences of text pieces; "" is the empty sequence.  A Python dict  *)
(* of parameters is a function from keys to values, wrapped in a record    *)
(* that also represents None.                                              *)
(***************************************************************************)
EXTENDS Integers, Sequences, FiniteSets, TLC

\* ---------------------------------------------------------------- bounds
\* Longest list of tool calls one proposer (LLM) answer carries.
MaxBatch == 3
\* Most results a context holds when ActionContext is called directly.
MaxContextCalls == 2

\* ------------------------------------------------------ program constants
MAX_CHAIN_ITERATIONS == 4

\* ------------------------------------------------------------------ text
Piece(kind, name, text) == [kind |-> kind, name |-> name, text |-> text]

NO_RESPONSE ==
    <<Piece("fixed", "", "We could not find any relevant information. Please rephrase the query")>>
FALLBACK_RESPONSE ==
    <<Piece("fixed", "", "Task execution failed. Please rephrase or retry")>>
CANCELLED_RESPONSE ==
    <<Piece("fixed", "", "Task execution cancelled by user.")>>
ALL_COMPLETED_RESPONSE ==
    <<Piece("fixed", "", "All requested actions have already been completed.")>>

\* f"{name}: {response_string}\n"
tool_response_str(name, result) == Piece("result", name, result)
\* f"{name}: Skipped - already executed with same parameters\n"
skip_message(name) == Piece("skip", name, "Skipped - already executed with same parameters")

\* Python's  s or d  on strings
OrElse(s, d) == IF s = <<>> THEN d ELSE s

\* ------------------------------------------------------------ parameters
Keys == {"NAME", "name"}
Values == {1, 2}
\* str.lower() on the keys and on the resume values that occur
Lower(s) ==
    CASE s = "NAME" -> "name"
      [] s = "TRUE" -> "true"
      [] OTHER -> s
\* position of a key in sorted(v): upper-case letters sort before lower-case
KeyRank(k) == IF k = "NAME" THEN 1 ELSE 2

EmptyMap == [k \in {} |-> 0]
PyNone == [none |-> TRUE, map |-> EmptyMap]
Dict(m) == [none |-> FALSE, map |-> m]
\* Python truthiness of a dict-or-None
Truthy(v) == ~v.none /\ DOMAIN v.map # {}

\* mutant: the keys are compared as they are written
normalize_params_caseSensitive(v) == IF v.none THEN EmptyMap ELSE v.map

\* ExecutedAction.normalize_params: None becomes {}, keys are lower-cased
\* while iterating in sorted order, so of two keys that collide the one
\* sorted last supplies the value.
normalize_params(v) ==
    IF v.none THEN EmptyMap
    ELSE LET m == v.map
             lks == {Lower(k) : k \in DOMAIN m}
             last(lk) == CHOOSE k \in DOMAIN m :
                            /\ Lower(k) = lk
                            /\ \A j \in DOMAIN m : Lower(j) = lk => KeyRank(j) <= KeyRank(k)
         IN [lk \in lks |-> m[last(lk)]]

\* ExecutedAction(name=..., parameters=..., timestamp=...); the timestamp
\* takes no part in any comparison and is left out.
ExecutedAction(name, parameters) ==
    [name |-> name, parameters |-> normalize_params(parameters)]

\* the test  ea.name == action_key.name and ea.parameters == action_key.parameters
\* over action_context.already_executed
SameAction(ea, key) == ea.name = key.name /\ ea.parameters = key.parameters
InExecuted(already_executed, key) ==
    \E i \in 1..Len(already_executed) : SameAction(already_executed[i], key)

\* -------------------------------------------------------- ActionContext
EmptyContext == [previous_results |-> <<>>, already_executed |-> <<>>]

\* mutant: the membership test is missing
add_executed_action_unchecked(ac, name, parameters) ==
    [ac EXCEPT !.already_executed = Append(@, ExecutedAction(name, parameters))]

add_executed_action(ac, name, parameters) ==
    LET new_action == ExecutedAction(name, parameters)
    IN IF ~InExecuted(ac.already_executed, new_action)
       THEN [ac EXCEPT !.already_executed = Append(@, new_action)]
       ELSE ac

add_previous_result(ac, result) ==
    [ac EXCEPT !.previous_results = Append(@, result)]

\* state["action_context"] is always a dict written by .dict()/.model_dump(),
\* so parse_obj succeeds and gives back the same context.
get_or_init_action_context(s) == s.action_context

\* ------------------------------------------------ tool calls and registry
\* tool_dict = {tool.name: tool for tool in tool_list}
tool_dict == {"search_user_by_name", "update_user"}

ToolCall(name, args, id) ==
    [name |-> name, args |-> Dict(args), id |-> id, type |-> "tool_call"]

\* The tool calls an LLM answer may carry: two spellings of one action, an
\* empty argument dict, colliding keys, and a tool that is not registered.
Candidates ==
    { ToolCall("search_user_by_name", ("NAME" :> 1), "call_1"),
      ToolCall("search_user_by_name", ("name" :> 1), "call_2"),
      ToolCall("search_user_by_name", EmptyMap, "call_3"),
      ToolCall("update_user", ("name" :> 1), "call_4"),
      ToolCall("update_user", ("NAME" :> 1 @@ "name" :> 2), "call_5"),
      ToolCall("list_users", ("name" :> 1), "call_6") }

\* response.tool_calls or []  of one llm_with_tools.invoke(...)
Proposals == UNION {[1..n -> Candidates] : n \in 0..MaxBatch}
\* llm_with_tools.invoke either answers or raises
ProposerAnswers ==
    {[raised |-> FALSE, tool_calls |-> p] : p \in Proposals}
        \cup {[raised |-> TRUE, tool_calls |-> <<>>]}

\* func.invoke(args) returns a value or raises; the value is recorded as text
Results == {"r1"}
Outcomes == Results \cup {"raise"}

\* resume values a client sends
ResumeValues == {"true", "TRUE", "false"}

\* --------------------------------------------------------------- state
\* initial_state of websocket_task_execution
initial_state(chained) ==
    [ query |-> "query",
      chained |-> chained,
      tool_calls |-> <<>>,
      identified_actions |-> <<>>,
      tool_response |-> <<>>,
      final_response |-> <<>>,
      user_approved |-> FALSE,
      requires_approval |-> FALSE,
      actions_to_review |-> <<>>,
      action_context |-> EmptyContext,
      iter_count |-> 0 ]

\* the dict handed to interrupt(): the "description" text is a function of
\* tool and parameters and is left out
ReviewPayload(calls, query) ==
    [ question |-> "Please review and approve the following actions:",
      actions |-> [i \in 1..Len(calls) |->
                      [tool |-> calls[i].name, parameters |-> calls[i].args]],
      query |-> query ]

\* duplicate test of identify_actions (lines 122-126)
IdentifyDuplicate(ac, tc) ==
    InExecuted(ac.already_executed, ExecutedAction(tc.name, tc.args))

\* A node's outcome: the state it returns, or, when interrupted is TRUE, the
\* value it passed to interrupt() (state is then what it would return once
\* interrupt() returns).
\* exit names the return statement taken.
NodeResult(s, interrupted, value, exit) ==
    [state |-> s, interrupted |-> interrupted, value |-> value, exit |-> exit]

\* mutant: an empty answer is reported with the failure sentinel
IdentifyNoToolCall_fallback(s1) ==
    NodeResult([s1 EXCEPT !.final_response = FALLBACK_RESPONSE,
                          !.requires_approval = FALSE], FALSE, <<>>, "no_tool_call")

\* "No tool call detected!" (lines 109-113)
IdentifyNoToolCall(s1) ==
    NodeResult([s1 EXCEPT !.final_response = NO_RESPONSE,
                          !.requires_approval = FALSE], FALSE, <<>>, "no_tool_call")

identify_actions(s, response) ==
    LET s1 == [s EXCEPT !.tool_calls = response]
    IN IF response = <<>>
       THEN IdentifyNoToolCall(s1)
       ELSE
         LET action_context == get_or_init_action_context(s1)
             Keep(tc) == ~IdentifyDuplicate(action_context, tc)
             filtered_tool_calls == SelectSeq(response, Keep)
             s2 == [s1 EXCEPT !.tool_calls = filtered_tool_calls]
             payload == ReviewPayload(filtered_tool_calls, s.query)
         IN IF filtered_tool_calls = <<>>
            THEN NodeResult(
                   [s2 EXCEPT !.final_response =
                                  OrElse(s2.tool_response, ALL_COMPLETED_RESPONSE),
                              !.requires_approval = FALSE], FALSE, <<>>, "all_executed")
            ELSE NodeResult(
                   [s2 EXCEPT !.action_context = action_context,
                              !.requires_approval = TRUE,
                              !.actions_to_review = <<payload>>], TRUE, <<payload>>, "identified")

\* duplicate test of chained_identify_actions (lines 211-217)
ChainedDuplicate(ac, tc) ==
    InExecuted(ac.already_executed, ExecutedAction(tc.name, tc.args))

\* mutant: a duplicate ends the workflow with the accumulated response
ChainedOnDuplicate_terminate(s1, action_context) ==
    NodeResult([s1 EXCEPT !.action_context = action_context,
                          !.final_response = OrElse(s1.tool_response, NO_RESPONSE),
                          !.requires_approval = FALSE], FALSE, <<>>, "duplicate")

\* mutant: a cycle that ends on a duplicate is not counted
ChainedOnDuplicate_uncounted(s1, action_context) ==
    NodeResult([s1 EXCEPT !.action_context = action_context,
                          !.iter_count = @ - 1], FALSE, <<>>, "duplicate")

\* "Instead of exiting, continue to the next iteration" (lines 218-223)
ChainedOnDuplicate(s1, action_context) ==
    NodeResult([s1 EXCEPT !.action_context = action_context], FALSE, <<>>, "duplicate")

\* mutant: every candidate of the answer is put up for review
ChainedIdentified_all(tool_calls) ==
    [i \in 1..Len(tool_calls) |->
        [name |-> tool_calls[i].name, args |-> tool_calls[i].args,
         id |-> tool_calls[i].id, type |-> "tool_call"]]

\* "Use the first tool call for chained execution (single tool at a time)":
\* identified_actions is built from tool_calls[0] alone (lines 207-233)
ChainedIdentified(tool_calls) ==
    <<[name |-> tool_calls[1].name, args |-> tool_calls[1].args,
       id |-> tool_calls[1].id, type |-> "tool_call"]>>

chained_identify_actions(s, answer) ==
    LET iter_count == s.iter_count + 1
        s1 == [s EXCEPT !.iter_count = iter_count]
    IN IF iter_count > MAX_CHAIN_ITERATIONS
       THEN NodeResult([s1 EXCEPT !.final_response = OrElse(s1.tool_response, NO_RESPONSE),
                                  !.requires_approval = FALSE], FALSE, <<>>, "max_iterations")
       ELSE IF answer.raised
       THEN NodeResult([s1 EXCEPT !.final_response = FALLBACK_RESPONSE,
                                  !.requires_approval = FALSE], FALSE, <<>>, "proposer_raised")
       ELSE IF answer.tool_calls = <<>>
       THEN NodeResult([s1 EXCEPT !.final_response = OrElse(s1.tool_response, NO_RESPONSE),
                                  !.requires_approval = FALSE], FALSE, <<>>, "no_tool_call")
       ELSE
         LET action_context == get_or_init_action_context(s1)
             tool_call == answer.tool_calls[1]
         IN IF ChainedDuplicate(action_context, tool_call)
            THEN ChainedOnDuplicate(s1, action_context)
            ELSE
              LET identified == ChainedIdentified(answer.tool_calls)
                  payload == ReviewPayload(identified, s.query)
              IN NodeResult(
                   [s1 EXCEPT !.identified_actions = identified,
                              !.requires_approval = TRUE,
                              !.actions_to_review = <<payload>>,
                              !.action_context = action_context], TRUE, <<payload>>,
                   "identified")

\* ---------------------------------------------------------- execution
\* One func.invoke(args): which entry of the batch, the tool, the arguments
\* as passed and in normalized form, and the outcome.
Invocation(pos, name, args, outcome) ==
    [pos |-> pos, name |-> name, args |-> args,
     parameters |-> normalize_params(args), outcome |-> outcome]

\* tool_call.get("args") or tool_call.get("parameters"): a tool call has no
\* "parameters" entry, so falsy args become None
ArgsOf(tc) == IF Truthy(tc.args) THEN tc.args ELSE PyNone

\* mutant: the final duplicate check is missing
ExecuteDuplicate_missing(ac, action_key) == FALSE

\* "final duplicate check before execution" (lines 288-292)
ExecuteDuplicate(ac, action_key) == InExecuted(ac.already_executed, action_key)

\* The for loop of execute_approved_tools from entry i on; outs[i] is what
\* func.invoke does for entry i if it is called.  raised: an exception left
\* the loop (the tool is not registered, or invoke raised).
RECURSIVE ExecLoop(_, _, _, _, _, _)
ExecLoop(calls, i, outs, tool_response, action_context, log) ==
    IF i > Len(calls)
    THEN [tool_response |-> tool_response, action_context |-> action_context,
          raised |-> FALSE, log |-> log]
    ELSE
      LET name == calls[i].name
          args == ArgsOf(calls[i])
          action_key == ExecutedAction(name, args)
      IN IF ExecuteDuplicate(action_context, action_key)
         THEN ExecLoop(calls, i + 1, outs, Append(tool_response, skip_message(name)),
                       action_context, log)
         ELSE IF name \notin tool_dict
         THEN [tool_response |-> tool_response, action_context |-> action_context,
               raised |-> TRUE, log |-> log]
         ELSE IF outs[i] = "raise"
         THEN [tool_response |-> tool_response, action_context |-> action_context,
               raised |-> TRUE, log |-> Append(log, Invocation(i, name, args, "raise"))]
         ELSE
           LET entry == tool_response_str(name, outs[i])
           IN ExecLoop(calls, i + 1, outs, Append(tool_response, entry),
                       add_executed_action(add_previous_result(action_context, entry),
                                           name, args),
                       Append(log, Invocation(i, name, args, outs[i])))

\* the finally block (lines 333-340)
ExecuteFinally(s) ==
    IF s.final_response # <<>>
    THEN [s EXCEPT !.user_approved = FALSE,
                   !.requires_approval = FALSE,
                   !.actions_to_review = <<>>,
                   !.tool_calls = <<>>,
                   !.identified_actions = <<>>]
    ELSE s

\* mutant: a failed batch reports what it accumulated instead of the
\* failure sentinel
ExecuteBatch_partial(s, r) ==
    LET s1 == [s EXCEPT !.tool_response = r.tool_response]
    IN IF r.raised
       THEN [s1 EXCEPT !.final_response = OrElse(s1.tool_response, FALLBACK_RESPONSE),
                       !.requires_approval = FALSE]
       ELSE LET s2 == [s1 EXCEPT !.action_context = r.action_context]
            IN IF ~s.chained
               THEN [s2 EXCEPT !.final_response = OrElse(s2.tool_response, NO_RESPONSE),
                               !.requires_approval = FALSE]
               ELSE s2

\* mutant: a single-shot batch that succeeded answers with the sentinel
\* instead of tool_response
ExecuteBatch_sentinel(s, r) ==
    LET s1 == [s EXCEPT !.tool_response = r.tool_response]
    IN IF r.raised
       THEN [s1 EXCEPT !.final_response = FALLBACK_RESPONSE,
                       !.requires_approval = FALSE]
       ELSE LET s2 == [s1 EXCEPT !.action_context = r.action_context]
            IN IF ~s.chained
               THEN [s2 EXCEPT !.final_response = NO_RESPONSE,
                               !.requires_approval = FALSE]
               ELSE s2

\* mutant: a batch that succeeded sets no final_response in either mode
ExecuteBatch_openEnded(s, r) ==
    LET s1 == [s EXCEPT !.tool_response = r.tool_response]
    IN IF r.raised
       THEN [s1 EXCEPT !.final_response = FALLBACK_RESPONSE,
                       !.requires_approval = FALSE]
       ELSE [s1 EXCEPT !.action_context = r.action_context]

\* what the body of the try block leaves in the state (lines 280-331)
ExecuteBatch(s, r) ==
    LET s1 == [s EXCEPT !.tool_response = r.tool_response]
    IN IF r.raised
       THEN [s1 EXCEPT !.final_response = FALLBACK_RESPONSE,
                       !.requires_approval = FALSE]
       ELSE LET s2 == [s1 EXCEPT !.action_context = r.action_context]
            IN IF ~s.chained
               THEN [s2 EXCEPT !.final_response = OrElse(s2.tool_response, NO_RESPONSE),
                               !.requires_approval = FALSE]
               ELSE s2

\* returns the new state and the invocations made
execute_approved_tools(s, outs) ==
    IF ~s.user_approved
    THEN [state |-> [s EXCEPT !.final_response = CANCELLED_RESPONSE,
                              !.requires_approval = FALSE],
          log |-> <<>>, exit |-> "cancelled"]
    ELSE
      LET tool_calls_to_execute ==
              IF ~s.chained THEN s.tool_calls ELSE s.identified_actions
      IN IF tool_calls_to_execute = <<>>
         THEN [state |-> ExecuteFinally([s EXCEPT !.final_response = NO_RESPONSE,
                                                  !.requires_approval = FALSE]),
               log |-> <<>>, exit |-> "nothing_to_execute"]
         ELSE
           LET r == ExecLoop(tool_calls_to_execute, 1, outs, s.tool_response,
                             get_or_init_action_context(s), <<>>)
           IN [state |-> ExecuteFinally(ExecuteBatch(s, r)), log |-> r.log,
               exit |-> IF r.raised THEN "failed" ELSE "executed"]

\* ------------------------------------------------------------ routing
\* entry point of the graph
tool_call_router(s) ==
    IF \/ s.final_response # <<>>
       \/ /\ ~s.requires_approval
          /\ s.tool_calls = <<>>
          /\ s.identified_actions = <<>>
          /\ s.iter_count > 0
    THEN "__end__"
    ELSE IF s.chained THEN "chained_identify_actions"
    ELSE "identify_actions"

\* mutant: the entry router also decides after execute_approved_tools
AfterExecute_router(s) == tool_call_router(s)

\* mutant: the edge does not test the iteration count
AfterExecute_unbounded(s) ==
    IF s.chained /\ s.final_response = <<>>
    THEN "chained_identify_actions"
    ELSE "__end__"

\* conditional edge leaving execute_approved_tools (lines 382-395)
AfterExecute(s) ==
    IF s.chained /\ s.final_response = <<>> /\ s.iter_count < MAX_CHAIN_ITERATIONS
    THEN "chained_identify_actions"
    ELSE "__end__"

\* mutant: the transport does not stop at the final event
IsFinal_never(s) == FALSE

\* the transport's test for the final event (lines 149, 155)
IsFinal(s) == s.final_response # <<>> /\ ~s.requires_approval

\* ------------------------------------------------------------ variables
VARIABLES
    state,         \* the values of the thread's checkpoint (AgentState)
    next_node,     \* the node the graph runs next for this thread
    interrupted,   \* next_node called interrupt() and awaits a resume
    resuming,      \* the stream was started with Command(resume=...)
    session,       \* websocket session: "closed", "open" or "awaiting"
    sent_payload,  \* <<payload>> shown to the approver for the open suspension
    result,        \* how the last session ended
    \* history
    decision,      \* decision delivered for the suspension of the current cycle
    invoked,       \* every func.invoke made, with the decision it ran under
    exec_batch,    \* tool_calls_to_execute of the last approved execution
    exec_outs,     \* what func.invoke did for each entry of exec_batch
    last_exit,     \* how the last node run ended: its return statement,
                   \* "interrupted" or "raised"
    reviewed_match, \* the last completed identify run passed the reviewed payload
    \* other callers
    second,        \* the stream of a second session resuming the same thread
    peer,          \* the workflow of a session with another thread id
    \* duplicate detection on its own
    probe          \* two actions and what the duplicate checks say of them

vars == <<state, next_node, interrupted, resuming, session, sent_payload, result,
          decision, invoked, exec_batch, exec_outs, last_exit, reviewed_match,
          second, peer, probe>>

others == <<second, peer, probe>>
\* the first session's workflow
firstVars ==
    <<state, next_node, interrupted, resuming, session, sent_payload, result,
      decision, invoked, exec_batch, exec_outs, last_exit, reviewed_match>>

history == <<invoked, exec_batch, exec_outs>>

InitWorkflow ==
    /\ state = initial_state(FALSE)
    /\ next_node = "__start__"
    /\ interrupted = FALSE
    /\ resuming = FALSE
    /\ session = "closed"
    /\ sent_payload = <<>>
    /\ result = "none"
    /\ decision = "none"
    /\ invoked = <<>>
    /\ exec_batch = <<>>
    /\ exec_outs = <<>>
    /\ last_exit = "none"
    /\ reviewed_match = TRUE
    /\ second = [phase |-> "idle", state |-> initial_state(FALSE), decision |-> "none"]
    /\ peer = [phase |-> "idle", state |-> initial_state(FALSE)]

Init == InitWorkflow /\ probe = [phase |-> "idle"]

\* mutant: the resume value is compared without lower-casing it
IsApprove_exact(v) == v = "true"

\* resume_value.lower() == "true"
IsApprove(v) == Lower(v) = "true"
DecisionOf(v) == IF IsApprove(v) THEN "approve" ELSE "reject"

\* The first message of a session without "resume": the graph starts on
\* initial_state (lines 19-51).
Request(chained) ==
    /\ session = "closed"
    /\ next_node = "__start__"
    /\ state' = initial_state(chained)
    /\ next_node' = tool_call_router(initial_state(chained))
    /\ session' = "open"
    /\ result' = "none"
    /\ UNCHANGED <<interrupted, resuming, sent_payload, decision, history,
                   last_exit, reviewed_match, others>>

\* The transport on the event of a node that returned s, when the graph
\* would run nxt next (lines 53-59, 131-159): the final event closes the
\* session and the stream is dropped; the end of the stream closes it too.
OnNodeEvent(s, nxt) ==
    IF IsFinal(s)
    THEN /\ session' = "closed" /\ next_node' = "__end__" /\ result' = "final"
    ELSE IF nxt = "__end__"
    THEN /\ session' = "closed" /\ next_node' = "__end__" /\ result' = "ended"
    ELSE /\ session' = "open" /\ next_node' = nxt /\ result' = "none"

\* One run of an identify node with outcome r.  A first call of interrupt()
\* aborts the run: nothing it wrote reaches the checkpoint, the payload goes
\* to the client and the session waits (lines 66-87).  In a run started by
\* Command(resume=...) interrupt() returns and the node completes.
IdentifyRun(r) ==
    /\ decision' = IF resuming THEN decision ELSE "none"
    /\ IF r.interrupted /\ ~resuming
       THEN /\ interrupted' = TRUE
            /\ session' = "awaiting"
            /\ sent_payload' = r.value
            /\ last_exit' = "interrupted"
            /\ UNCHANGED <<state, next_node, resuming, result, reviewed_match>>
       ELSE /\ state' = r.state
            /\ interrupted' = FALSE
            /\ resuming' = FALSE
            /\ sent_payload' = <<>>
            /\ last_exit' = r.exit
            /\ reviewed_match' = (resuming => (r.interrupted /\ r.value = sent_payload))
            /\ OnNodeEvent(r.state, "execute_approved_tools")
    /\ UNCHANGED <<history, others>>

\* llm_with_tools.invoke raises inside identify_actions: the exception
\* leaves the stream and the session ends with an error (lines 60-63).
StreamError ==
    /\ session' = "closed"
    /\ result' = "error"
    /\ resuming' = FALSE
    /\ decision' = IF resuming THEN decision ELSE "none"
    /\ last_exit' = "raised"
    /\ UNCHANGED <<state, next_node, interrupted, sent_payload, history,
                   reviewed_match, others>>

IdentifyActions ==
    /\ session = "open"
    /\ next_node = "identify_actions"
    /\ \E answer \in ProposerAnswers :
          IF answer.raised THEN StreamError
          ELSE IdentifyRun(identify_actions(state, answer.tool_calls))

ChainedIdentifyActions ==
    /\ session = "open"
    /\ next_node = "chained_identify_actions"
    /\ \E answer \in ProposerAnswers :
          IdentifyRun(chained_identify_actions(state, answer))

ExecuteApprovedTools ==
    /\ session = "open"
    /\ next_node = "execute_approved_tools"
    /\ LET calls == IF ~state.chained THEN state.tool_calls
                    ELSE state.identified_actions
           ran == state.user_approved /\ calls # <<>>
       IN \E outs \in [1..(IF ran THEN Len(calls) ELSE 0) -> Outcomes] :
            LET r == execute_approved_tools(state, outs)
            IN /\ state' = r.state
               /\ invoked' = invoked \o
                      [i \in 1..Len(r.log) |->
                          [call |-> r.log[i], decision |-> decision,
                           iter_count |-> state.iter_count]]
               /\ exec_batch' = IF ran THEN calls ELSE <<>>
               /\ exec_outs' = outs
               /\ last_exit' = r.exit
               /\ OnNodeEvent(r.state, AfterExecute(r.state))
    /\ UNCHANGED <<interrupted, resuming, sent_payload, decision, reviewed_match,
                   others>>

\* The approval message of the session that showed the payload (lines
\* 87-114): user_approved is written to the checkpoint, then the stream
\* resumes.
Decide(v) ==
    /\ session = "awaiting"
    /\ state' = [state EXCEPT !.user_approved = IsApprove(v)]
    /\ resuming' = TRUE
    /\ session' = "open"
    /\ decision' = DecisionOf(v)
    /\ UNCHANGED <<next_node, interrupted, sent_payload, result, history,
                   last_exit, reviewed_match, others>>

\* mutant: a wait that ends without a decision cancels the workflow
Abandon_cancels ==
    /\ session = "awaiting"
    /\ session' = "closed"
    /\ result' = "error"
    /\ state' = [state EXCEPT !.final_response = CANCELLED_RESPONSE,
                              !.requires_approval = FALSE]
    /\ UNCHANGED <<next_node, interrupted, resuming, sent_payload,
                   decision, history, last_exit, reviewed_match, others>>

\* An approval message without "resume" (lines 89-92), the 300 s timeout
\* (lines 116-119) or a disconnect (line 166): the session ends and the
\* checkpoint stays as it is.
Abandon ==
    /\ session = "awaiting"
    /\ session' = "closed"
    /\ result' = "error"
    /\ UNCHANGED <<state, next_node, interrupted, resuming, sent_payload,
                   decision, history, last_exit, reviewed_match, others>>

\* The first message of a new session carrying thread_id and resume (lines
\* 24-25, 46-51), for a thread whose identify node is still to complete
\* (it was interrupted, or its stream failed): the stream resumes from the
\* checkpoint with the resume value at hand; user_approved is not written.
ResumeSession(v) ==
    /\ session = "closed"
    /\ next_node \in {"identify_actions", "chained_identify_actions"}
    /\ resuming' = TRUE
    /\ session' = "open"
    /\ result' = "none"
    /\ decision' = DecisionOf(v)
    /\ UNCHANGED <<state, next_node, interrupted, sent_payload, history,
                   last_exit, reviewed_match, others>>

Next ==
    \/ \E chained \in BOOLEAN : Request(chained)
    \/ IdentifyActions
    \/ ChainedIdentifyActions
    \/ ExecuteApprovedTools
    \/ \E v \in ResumeValues : Decide(v)
    \/ Abandon
    \/ \E v \in ResumeValues : ResumeSession(v)

Spec == Init /\ [][Next]_vars

\* A requested decision reaches the engine: in the session that asked for it
\* or, after that session ended, as the "resume" of a later session.
DeliverDecision == \E v \in ResumeValues : Decide(v) \/ ResumeSession(v)

\* The workflows requested with chained = true.
NextChained ==
    \/ Request(TRUE)
    \/ ChainedIdentifyActions
    \/ ExecuteApprovedTools
    \/ \E v \in ResumeValues : Decide(v)
    \/ Abandon
    \/ \E v \in ResumeValues : ResumeSession(v)

\* The stream loop awaits the next event until the stream ends, so a node
\* that is due runs; every requested decision is eventually delivered.
Fairness ==
    /\ WF_vars(ChainedIdentifyActions)
    /\ WF_vars(ExecuteApprovedTools)
    /\ WF_vars(DeliverDecision)

SpecChained == Init /\ [][NextChained]_vars /\ Fairness

\* A caller of ActionContext outside the nodes: add_previous_result and
\* add_executed_action applied to the context a workflow has left behind.
ActionContextCall ==
    /\ \E tc \in Candidates :
          state' = [state EXCEPT !.action_context =
                       add_executed_action(
                           add_previous_result(get_or_init_action_context(state),
                                               tool_response_str(tc.name, "r1")),
                           tc.name, ArgsOf(tc))]
    /\ session = "closed"
    /\ next_node = "__end__"
    /\ Len(state.action_context.previous_results) < MaxContextCalls
    /\ UNCHANGED <<next_node, interrupted, resuming, session, sent_payload, result,
                   decision, history, last_exit, reviewed_match, others>>

\* the engine together with direct calls of the ActionContext methods
SpecContext == Init /\ [][Next \/ ActionContextCall]_vars

\* ------------------------------------------------- a second caller
\* Longest list of tool calls the proposer returns to the second caller,
\* and longest review payload of a suspension the second caller joins.
MaxSecondBatch == 1
\* The second caller joins within the first SecondJoinCycles cycles.
SecondJoinCycles == 1
SecondAnswers ==
    {a \in ProposerAnswers : Len(a.tool_calls) <= MaxSecondBatch}

\* A second websocket session sends {"thread_id", "resume"} for the same
\* thread while the stream resumed by the first session is running its
\* identify node (lines 24-25, 46-51): no lock or in-flight check exists,
\* so astream(Command(resume=...)) loads the thread's checkpoint into a
\* second stream with channels of its own.
SecondResume(v) ==
    /\ second.phase = "idle"
    /\ session = "open" /\ resuming /\ interrupted
    /\ Len(sent_payload[1].actions) <= MaxSecondBatch
    /\ state.iter_count < SecondJoinCycles
    /\ second' = [phase |-> "identify", state |-> state, decision |-> DecisionOf(v)]
    /\ UNCHANGED <<state, next_node, interrupted, resuming, session, sent_payload,
                   result, decision, history, last_exit, reviewed_match, peer, probe>>

\* the second stream re-executes the interrupted identify node; interrupt()
\* returns its resume value
SecondIdentify ==
    /\ second.phase = "identify"
    /\ \E answer \in SecondAnswers :
          LET s == second.state
          IN IF ~s.chained /\ answer.raised
             THEN second' = [second EXCEPT !.phase = "done"]
             ELSE LET r == IF s.chained THEN chained_identify_actions(s, answer)
                           ELSE identify_actions(s, answer.tool_calls)
                  IN second' = [second EXCEPT
                                   !.state = r.state,
                                   !.phase = IF IsFinal(r.state) THEN "done"
                                             ELSE "execute"]
    /\ UNCHANGED <<state, next_node, interrupted, resuming, session, sent_payload,
                   result, decision, history, last_exit, reviewed_match, peer, probe>>

\* the second stream runs execute_approved_tools on its own channels; the
\* model follows it to the end of the cycle it resumed
SecondExecute ==
    /\ second.phase = "execute"
    /\ LET s == second.state
           calls == IF ~s.chained THEN s.tool_calls ELSE s.identified_actions
           ran == s.user_approved /\ calls # <<>>
       IN \E outs \in [1..(IF ran THEN Len(calls) ELSE 0) -> Outcomes] :
            LET r == execute_approved_tools(s, outs)
            IN /\ second' = [second EXCEPT !.state = r.state, !.phase = "done"]
               /\ invoked' = invoked \o
                      [i \in 1..Len(r.log) |->
                          [call |-> r.log[i], decision |-> second.decision,
                           iter_count |-> s.iter_count]]
    /\ UNCHANGED <<state, next_node, interrupted, resuming, session, sent_payload,
                   result, decision, exec_batch, exec_outs, last_exit,
                   reviewed_match, peer, probe>>

\* Two callers on one thread id.  The first caller is followed to the end
\* of the cycle in which the second one joined.
NextTwoCallers ==
    \/ (second.phase = "idle" \/ session = "open") /\ Next
    \/ \E v \in ResumeValues : SecondResume(v)
    \/ SecondIdentify
    \/ SecondExecute

SpecTwoCallers == Init /\ [][NextTwoCallers]_vars

\* ------------------------------------------- a second thread id
\* The first session runs under thread id "t1", a concurrent session under
\* "t2".  MemorySaver keeps one checkpoint per thread id: state for "t1",
\* peer.state for "t2".

\* mutant: every session uses one thread id
config_shared(thread_id) == "t1"

\* config = {"configurable": {"thread_id": thread_id}} (line 29), passed to
\* every astream, aget_state and aupdate_state call of the session
config(thread_id) == thread_id

\* the checkpoint the store holds for a thread id
Checkpoint(thread_id) == IF thread_id = "t1" THEN state ELSE peer.state

\* the peer session's graph calls: what they read and where they write
PeerRead == Checkpoint(config("t2"))
PeerWrite(v, phase) ==
    /\ state' = IF config("t2") = "t1" THEN v ELSE state
    /\ peer' = [phase |-> phase,
                state |-> IF config("t2") = "t2" THEN v ELSE peer.state]
    /\ UNCHANGED <<next_node, interrupted, resuming, session, sent_payload,
                   result, decision, history, last_exit, reviewed_match, second,
                   probe>>

\* what the proposer answers to the peer
PeerAnswers ==
    {a \in SecondAnswers :
        \A i \in 1..Len(a.tool_calls) : a.tool_calls[i].id = "call_4"}

\* the peer's first message: a request without thread_id, while the first
\* workflow is in one of its first SecondJoinCycles cycles
PeerRequest(chained) ==
    /\ peer.phase = "idle"
    /\ next_node # "__start__"
    /\ state.iter_count < SecondJoinCycles
    /\ PeerWrite(initial_state(chained), "identify")

\* the peer's identify node: a first run suspends, a resumed run completes
PeerIdentify ==
    /\ peer.phase \in {"identify", "resumed"}
    /\ \E answer \in PeerAnswers :
          LET s == PeerRead
          IN IF ~s.chained /\ answer.raised
             THEN PeerWrite(s, "done")
             ELSE LET r == IF s.chained THEN chained_identify_actions(s, answer)
                           ELSE identify_actions(s, answer.tool_calls)
                  IN IF r.interrupted /\ peer.phase = "identify"
                     THEN PeerWrite(s, "awaiting")
                     ELSE PeerWrite(r.state, IF IsFinal(r.state) THEN "done"
                                             ELSE "execute")

\* the peer's approval message (lines 96-114)
PeerDecide(v) ==
    /\ peer.phase = "awaiting"
    /\ PeerWrite([PeerRead EXCEPT !.user_approved = IsApprove(v)], "resumed")

\* the peer's execute_approved_tools; the peer is followed through one cycle
PeerExecute ==
    /\ peer.phase = "execute"
    /\ LET s == PeerRead
           calls == IF ~s.chained THEN s.tool_calls ELSE s.identified_actions
           ran == s.user_approved /\ calls # <<>>
       IN \E outs \in [1..(IF ran THEN Len(calls) ELSE 0) -> Outcomes] :
            PeerWrite(execute_approved_tools(s, outs).state, "done")

\* Two workflows under distinct thread ids; the first one is followed while
\* the peer is idle or while it is in its first SecondJoinCycles cycles.
NextThreads ==
    \/ (peer.phase = "idle" \/ state.iter_count < SecondJoinCycles) /\ Next
    \/ \E chained \in BOOLEAN : PeerRequest(chained)
    \/ PeerIdentify
    \/ \E v \in ResumeValues : PeerDecide(v)
    \/ PeerExecute

SpecThreads == Init /\ [][NextThreads]_vars

\* ------------------------------------------- duplicate detection alone
\* The duplicate checks applied to a recorded action a and a candidate b.
ProbeNames == {"search_user_by_name", "update_user"}
ProbeMaps == UNION {[D -> Values] : D \in SUBSET Keys}
ProbeCalls ==
    {ToolCall(n, m, id) : n \in ProbeNames, m \in ProbeMaps, id \in {"call_1", "call_2"}}

InitProbe ==
    /\ InitWorkflow
    /\ probe \in {[phase |-> "drawn", a |-> a, b |-> b] : a, b \in ProbeCalls}

\* execute_approved_tools records a after its invocation (lines 283-284, 316)
ProbeRecord ==
    /\ probe.phase = "drawn"
    /\ probe' = [phase |-> "recorded", a |-> probe.a, b |-> probe.b,
                 context |-> add_executed_action(EmptyContext, probe.a.name,
                                                 ArgsOf(probe.a))]
    /\ UNCHANGED <<firstVars, second, peer>>

\* b meets each duplicate check, add_executed_action, and the validator a
\* second time (parse_obj of the stored context)
ProbeCheck ==
    /\ probe.phase = "recorded"
    /\ LET ctx == probe.context
           b == probe.b
           once == ExecutedAction(b.name, b.args).parameters
       IN probe' = [phase |-> "checked", a |-> probe.a, b |-> b, context |-> ctx,
                    identify |-> IdentifyDuplicate(ctx, b),
                    chained |-> ChainedDuplicate(ctx, b),
                    execute |-> ExecuteDuplicate(ctx, ExecutedAction(b.name, ArgsOf(b))),
                    added |-> (add_executed_action(ctx, b.name, ArgsOf(b)) # ctx),
                    once |-> once,
                    twice |-> ExecutedAction(b.name, Dict(once)).parameters]
    /\ UNCHANGED <<firstVars, second, peer>>

NextProbe == ProbeRecord \/ ProbeCheck

SpecProbe == InitProbe /\ [][NextProbe]_vars

\* ================================================================ claims
Succeeded(i) == invoked[i].call.outcome # "raise"
Halted == next_node = "__end__"

\* C1: every tool invocation runs under an 'approve' decision delivered for
\* the suspension of its own cycle (never under a reject, an approval of an
\* earlier cycle, or no decision).
C1_ApprovalPrecedesInvocation ==
    \A i \in 1..Len(invoked) : invoked[i].decision = "approve"

\* C2: once a reject has been delivered for a suspension, the workflow ends
\* with the cancellation sentinel and no tool runs under that reject.
C2_RejectCancels ==
    /\ \A i \in 1..Len(invoked) : invoked[i].decision # "reject"
    /\ (Halted /\ decision = "reject") => state.final_response = CANCELLED_RESPONSE

\* C3: within one workflow no two tool invocations have the same name and
\* the same normalized parameters.
C3_NoRepeatedInvocation ==
    \A i, j \in 1..Len(invoked) :
        (i < j) => ~( /\ invoked[i].call.name = invoked[j].call.name
                      /\ invoked[i].call.parameters = invoked[j].call.parameters )

\* a single-shot batch that names one action twice (in two spellings) was
\* approved and ran to its end
C3_Witness ==
    /\ ~state.chained
    /\ last_exit = "executed"
    /\ Len(invoked) >= 1
    /\ \E i, j \in 1..Len(exec_batch) :
          /\ i < j
          /\ exec_batch[i].args # exec_batch[j].args
          /\ ExecutedAction(exec_batch[i].name, exec_batch[i].args)
               = ExecutedAction(exec_batch[j].name, exec_batch[j].args)

NoTwoEqual(already_executed) ==
    \A i, j \in 1..Len(already_executed) :
        (i < j) => ~SameAction(already_executed[i], already_executed[j])

\* C4: already_executed never holds two entries with equal name and equal
\* normalized parameters, after any engine steps and add_executed_action
\* calls.
C4_AlreadyExecutedIsSet == NoTwoEqual(state.action_context.already_executed)

\* add_executed_action was called for an action that is already recorded
\* (more calls were made than entries exist) and after an execution
C4_Witness ==
    /\ Len(state.action_context.already_executed) >= 1
    /\ Len(state.action_context.previous_results)
          > Len(state.action_context.already_executed)
    /\ Len(invoked) >= 1

\* ---- the batch of the last approved execution, as the claims describe it
SameNormalized(a, b) ==
    ExecutedAction(a.name, ArgsOf(a)) = ExecutedAction(b.name, ArgsOf(b))
\* entry i repeats an earlier entry of the batch
Repeats(i) == \E j \in 1..(i - 1) : SameNormalized(exec_batch[j], exec_batch[i])
\* entry i fails when it is invoked
Fails(i) == exec_batch[i].name \notin tool_dict \/ exec_outs[i] = "raise"
IsFirstFailure(k) ==
    /\ ~Repeats(k) /\ Fails(k)
    /\ \A j \in 1..(k - 1) : Repeats(j) \/ ~Fails(j)
FirstFailure == CHOOSE k \in 1..Len(exec_batch) : IsFirstFailure(k)
\* positions of the entries whose invocation returned, in invocation order
OkCalls == SelectSeq(invoked, LAMBDA e : e.call.outcome # "raise")
OkPositions == [i \in 1..Len(OkCalls) |-> OkCalls[i].call.pos]
ResultEntry(i) == tool_response_str(exec_batch[i].name, exec_outs[i])
\* the ascending sequence of the members of a set of positions
RECURSIVE Ascending(_)
Ascending(S) ==
    IF S = {} THEN <<>>
    ELSE LET m == CHOOSE x \in S : \A y \in S : x <= y
         IN <<m>> \o Ascending(S \ {m})

\* C5: a chained workflow whose four cycles each executed a new action
\* under an approval halts after MAX_CHAIN_ITERATIONS cycles with
\* final_response equal to the accumulated tool_response.
C5_BoundEndsWithAccumulated ==
    ( /\ Halted /\ state.chained
      /\ Len(invoked) = MAX_CHAIN_ITERATIONS
      /\ \A i \in 1..Len(invoked) : Succeeded(i) /\ invoked[i].decision = "approve" )
    => ( /\ state.iter_count = MAX_CHAIN_ITERATIONS
         /\ state.final_response = state.tool_response )

\* C6: in an approved single-shot batch whose k-th action fails, exactly the
\* first k-1 actions are invoked and recorded, none after k is invoked and
\* final_response is the failure sentinel.
C6_FailFast ==
    (~state.chained /\ last_exit = "failed")
    => LET k == FirstFailure
       IN /\ OkPositions = [i \in 1..(k - 1) |-> i]
          /\ state.tool_response = [i \in 1..(k - 1) |-> ResultEntry(i)]
          /\ \A i \in 1..Len(invoked) : invoked[i].call.pos <= k
          /\ state.final_response = FALLBACK_RESPONSE

\* C6 as amended: of the first k-1 actions those that repeat an earlier
\* action of the batch are skipped and recorded with a skip note, the
\* others are invoked and recorded; none after k is invoked and
\* final_response is the failure sentinel.
C6_FailFastAmended ==
    (~state.chained /\ last_exit = "failed")
    => /\ \E k \in 1..Len(exec_batch) : IsFirstFailure(k)
       /\ LET k == FirstFailure
          IN /\ OkPositions = Ascending({i \in 1..(k - 1) : ~Repeats(i)})
             /\ state.tool_response =
                   [i \in 1..(k - 1) |->
                       IF Repeats(i) THEN skip_message(exec_batch[i].name)
                       ELSE ResultEntry(i)]
             /\ \A i \in 1..Len(invoked) : invoked[i].call.pos <= k
             /\ state.final_response = FALLBACK_RESPONSE
             /\ Halted /\ result = "final"

\* the second of three distinct actions failed
C6_Witness ==
    /\ ~state.chained /\ last_exit = "failed"
    /\ Len(exec_batch) = 3
    /\ IsFirstFailure(2)
    /\ ~Repeats(3)
    /\ Len(OkCalls) = 1

\* C7: after a batch that failed, every action of it that succeeded is
\* recorded in the action_context of the resulting state.
C7_SucceededAreRecorded ==
    (last_exit = "failed")
    => \A i \in 1..Len(invoked) :
          Succeeded(i) =>
             InExecuted(state.action_context.already_executed,
                        ExecutedAction(invoked[i].call.name, invoked[i].call.args))

InvokedEntries ==
    [i \in 1..Len(invoked) |->
        tool_response_str(invoked[i].call.name, invoked[i].call.outcome)]
C9_Scenario ==
    /\ state.chained
    /\ last_exit = "no_tool_call"
    /\ Len(invoked) >= 1
    /\ Len(invoked) < MAX_CHAIN_ITERATIONS
    /\ state.iter_count = Len(invoked) + 1
    /\ \A i \in 1..Len(invoked) : Succeeded(i) /\ invoked[i].decision = "approve"
C9_ChainEndsWithEntries ==
    C9_Scenario
    => /\ Halted /\ result = "final"
       /\ state.tool_response = InvokedEntries
       /\ state.final_response = InvokedEntries
       /\ C3_NoRepeatedInvocation

\* three actions were executed before the proposer had nothing more
C9_Witness == C9_Scenario /\ Len(invoked) = 3

C10_AfterDuplicate ==
    /\ invoked' = invoked
    /\ IF state.user_approved
       THEN /\ state'.final_response = <<>>
            /\ Len(state'.tool_response) = Len(state.tool_response) + 1
            /\ state'.tool_response[Len(state'.tool_response)].kind = "skip"
            /\ next_node' = IF state.iter_count < MAX_CHAIN_ITERATIONS
                            THEN "chained_identify_actions" ELSE "__end__"
       ELSE /\ state'.final_response = CANCELLED_RESPONSE
            /\ next_node' = "__end__"
C11_NoCandidateEnds ==
    (~state.chained /\ last_exit = "no_tool_call")
    => /\ state.final_response = NO_RESPONSE
       /\ ~state.requires_approval
       /\ Halted /\ result = "final"
       /\ session = "closed" /\ ~interrupted /\ sent_payload = <<>>
       /\ invoked = <<>>

\* the first proposer call of a single-shot request returned nothing
C11_Witness ==
    /\ ~state.chained /\ last_exit = "no_tool_call"
    /\ decision = "none"
    /\ state.tool_calls = <<>>

C13_HaltCarriesFinalResponse ==
    Halted => (state.final_response # <<>> /\ result = "final")

\* C14: when the proposer raises, in identify_actions or in
\* chained_identify_actions, the workflow ends with final_response equal
\* to the failure sentinel in a final event; no exception reaches the
\* transport.
C14_ProposerFailureEnds ==
    (last_exit \in {"raised", "proposer_raised"})
    => /\ state.final_response = FALLBACK_RESPONSE
       /\ Halted /\ result = "final"

\* C15: when two callers resume the same suspended thread concurrently, the
\* pending action of that suspension is executed at most once: no two
\* invocations of one cycle that returned have the same name and
\* normalized parameters.
C15_PendingExecutedOnce ==
    \A i, j \in 1..Len(invoked) :
        (i < j /\ invoked[i].iter_count = invoked[j].iter_count
               /\ Succeeded(i) /\ Succeeded(j))
        => ~( /\ invoked[i].call.name = invoked[j].call.name
              /\ invoked[i].call.parameters = invoked[j].call.parameters )

PendingActions(s) == IF s.chained THEN s.identified_actions ELSE s.tool_calls
C17_SuspensionIsSaved ==
    (session = "awaiting")
    => /\ state.requires_approval
       /\ state.actions_to_review = sent_payload
       /\ sent_payload = <<ReviewPayload(PendingActions(state), state.query)>>

\* C18: the duplicate checks of identify_actions, chained_identify_actions
\* and execute_approved_tools and the membership test of
\* add_executed_action all treat two actions as equal exactly when their
\* names are equal and their parameter maps are equal after lower-casing the
\* keys, whatever the correlation ids, with missing parameters equal to the
\* empty map; normalizing twice gives what normalizing once gives.
\* The pairs (lower-cased key, value) of a parameter map; of two keys of one
\* map that differ only in case the one sorted last counts.
LowerCasedPairs(v) ==
    IF v.none THEN {}
    ELSE {<<Lower(k), v.map[k]>> :
             k \in {k \in DOMAIN v.map :
                      \A j \in DOMAIN v.map :
                         Lower(j) = Lower(k) => KeyRank(j) <= KeyRank(k)}}
EqualActions(a, b) ==
    a.name = b.name /\ LowerCasedPairs(a.args) = LowerCasedPairs(b.args)
C18_DuplicateRelation ==
    (probe.phase = "checked")
    => LET eq == EqualActions(probe.a, probe.b)
       IN /\ probe.identify = eq
          /\ probe.chained = eq
          /\ probe.execute = eq
          /\ probe.added = ~eq
          /\ probe.twice = probe.once

\* two spellings of one action with different correlation ids were found
\* equal by every check
C18_Witness ==
    /\ probe.phase = "checked"
    /\ probe.a.id # probe.b.id
    /\ probe.a.args # probe.b.args
    /\ DOMAIN probe.a.args.map # DOMAIN probe.b.args.map
    /\ probe.identify /\ probe.chained /\ probe.execute /\ ~probe.added

\* C19: the actions invoked after an approval are the actions of the review
\* payload the approver accepted: whenever an execution invoked a tool, the
\* identify run that completed at the resume had produced exactly the
\* payload that was shown.
C19_ExecutesWhatWasReviewed ==
    ( /\ last_exit \in {"executed", "failed"}
      /\ \E i \in 1..Len(invoked) : invoked[i].iter_count = state.iter_count )
    => reviewed_match

\* ---- which node follows which
IdentifyNodes == {"identify_actions", "chained_identify_actions"}
NodeCompleted ==
    /\ next_node \in IdentifyNodes \cup {"execute_approved_tools"}
    /\ next_node' # next_node
EntryNode(s) == IF s.chained THEN "chained_identify_actions" ELSE "identify_actions"

C21_HandshakeReset ==
    ( /\ state.chained
      /\ last_exit = "executed"
      /\ next_node = "chained_identify_actions" )
    => /\ ~state.user_approved
       /\ ~state.requires_approval
       /\ state.actions_to_review = <<>>

\* C22: in chained mode every review payload names exactly one action,
\* identified_actions never holds more than one action, and no two tool
\* invocations belong to the same cycle (the same iter_count), however many
\* candidates the proposer returned.
C22_OneActionPerCycle ==
    state.chained =>
      /\ Len(state.identified_actions) <= 1
      /\ sent_payload # <<>> => Len(sent_payload[1].actions) = 1
      /\ state.actions_to_review # <<>> => Len(state.actions_to_review[1].actions) = 1
      /\ \A i, j \in 1..Len(invoked) :
            i < j => invoked[i].iter_count < invoked[j].iter_count

\* two chained cycles were reviewed and executed, one tool each (the
\* proposer's answers carry up to MaxBatch candidates, of which only the
\* first leaves a trace in the state)
C22_Witness ==
    /\ state.chained
    /\ Len(invoked) = 2
    /\ invoked[1].iter_count = 1
    /\ invoked[2].iter_count = 2
    /\ Len(state.identified_actions) = 1
    /\ Len(state.actions_to_review[1].actions) = 1

\* C23: a chained workflow never completes chained_identify_actions more
\* than MAX_CHAIN_ITERATIONS times (iter_count counts the completed runs),
\* never invokes more than MAX_CHAIN_ITERATIONS tools, and, when nodes that
\* are due run and requested decisions are delivered, always halts.
C23_ChainedTerminates ==
    /\ [](state.chained =>
            /\ state.iter_count <= MAX_CHAIN_ITERATIONS
            /\ Len(invoked) <= MAX_CHAIN_ITERATIONS)
    /\ ((state.chained /\ next_node # "__start__") ~> Halted)

\* a chained workflow that used all its cycles, one tool in each
C23_Witness ==
    /\ state.chained
    /\ Halted
    /\ state.iter_count = MAX_CHAIN_ITERATIONS
    /\ Len(invoked) = MAX_CHAIN_ITERATIONS

ExecutionExits == {"cancelled", "nothing_to_execute", "failed", "executed"}

\* C24: in single-shot mode the step of execute_approved_tools ends the
\* workflow with a final event, whatever its outcome, and once it has run no
\* further step proposes or executes anything.
C24_SingleRound ==
    [][ /\ (~state.chained /\ next_node = "execute_approved_tools"
                /\ next_node' # next_node)
          => /\ next_node' = "__end__"
             /\ state'.final_response # <<>>
             /\ result' = "final"
             /\ last_exit' \in ExecutionExits
        /\ (~state.chained /\ last_exit \in ExecutionExits)
          => (state' = state /\ invoked' = invoked /\ next_node' = "__end__")
      ]_vars

\* a single-shot batch of MaxBatch actions was approved and executed, and
\* the workflow halted on it
C24_Witness ==
    /\ ~state.chained
    /\ Halted
    /\ last_exit = "executed"
    /\ Len(invoked) = MaxBatch
    /\ result = "final"

\* C25: iter_count never decreases and never exceeds MAX_CHAIN_ITERATIONS;
\* a completed run of chained_identify_actions adds exactly 1 to it, and
\* nothing else changes it: not identify_actions, not
\* execute_approved_tools, not a run that suspends, not the transport.
C25_IterCount ==
    [][ /\ state'.iter_count >= state.iter_count
        /\ state'.iter_count <= MAX_CHAIN_ITERATIONS
        /\ IF NodeCompleted /\ next_node = "chained_identify_actions"
           THEN state'.iter_count = state.iter_count + 1
           ELSE state'.iter_count = state.iter_count
      ]_vars

\* the fourth chained cycle has completed chained_identify_actions after a
\* cycle that ended on a duplicate
C25_Witness ==
    /\ state.chained
    /\ state.iter_count = MAX_CHAIN_ITERATIONS
    /\ Len(invoked) < MAX_CHAIN_ITERATIONS - 1
    /\ next_node = "execute_approved_tools"
    /\ last_exit = "identified"

IsPrefix(a, b) == Len(a) <= Len(b) /\ SubSeq(b, 1, Len(a)) = a
Suffix(a, b) == SubSeq(b, Len(a) + 1, Len(b))
\* the "name: result" entries of the invocations in log that returned
ResultEntries(log) ==
    LET ok == SelectSeq(log, LAMBDA e : e.call.outcome # "raise")
    IN [i \in 1..Len(ok) |-> tool_response_str(ok[i].call.name, ok[i].call.outcome)]

\* C26: every step leaves tool_response and action_context.previous_results
\* as prefixes of their new values, and what a step appends to each of them
\* is, skip notes aside, one "name: result" entry per tool invocation of
\* that step that returned, in invocation order.
C26_AppendOnly ==
    [][ /\ IsPrefix(state.tool_response, state'.tool_response)
        /\ IsPrefix(state.action_context.previous_results,
                    state'.action_context.previous_results)
        /\ IsPrefix(invoked, invoked')
        /\ SelectSeq(Suffix(state.tool_response, state'.tool_response),
                     LAMBDA e : e.kind = "result")
              = ResultEntries(Suffix(invoked, invoked'))
        /\ Suffix(state.action_context.previous_results,
                  state'.action_context.previous_results)
              = ResultEntries(Suffix(invoked, invoked'))
      ]_vars

\* the returns of chained_identify_actions that surface no new suspension
NoSuspensionExits == {"duplicate", "no_tool_call", "proposer_raised"}

\* C27: in chained mode, after chained_identify_actions returned without a
\* new suspension, every action still held in identified_actions is already
\* recorded in already_executed, and the step that follows invokes no tool.
C27_StaleActionsAreExecuted ==
    /\ [](( state.chained /\ last_exit \in NoSuspensionExits ) =>
            \A i \in 1..Len(state.identified_actions) :
               InExecuted(state.action_context.already_executed,
                          ExecutedAction(state.identified_actions[i].name,
                                         ArgsOf(state.identified_actions[i]))))
    /\ [][( state.chained /\ last_exit \in NoSuspensionExits ) =>
             invoked' = invoked]_vars

\* execute_approved_tools has run after a duplicate proposal, with the
\* approval and the identified action of the previous cycle still in the
\* state, and has skipped that action
C27_Witness ==
    /\ state.chained
    /\ last_exit = "executed"
    /\ state.iter_count = 2
    /\ Len(invoked) = 1
    /\ state.user_approved
    /\ Len(state.identified_actions) = 1
    /\ \E k \in 1..Len(state.tool_response) : state.tool_response[k].kind = "skip"

\* C28: when the wait for a decision ends without one (timeout or
\* disconnect), the checkpointed state and the position in the graph are
\* left as they were, no tool is invoked, and the suspension stays open:
\* a later session can resume the thread.
C28_AbandonKeepsCheckpoint ==
    /\ [][ (session = "awaiting" /\ session' = "closed") =>
             /\ state' = state
             /\ next_node' = next_node
             /\ interrupted' = interrupted
             /\ sent_payload' = sent_payload
             /\ invoked' = invoked ]_vars
    /\ []( (session = "closed" /\ interrupted /\ last_exit = "interrupted") =>
             /\ state.final_response = <<>>
             /\ \A v \in ResumeValues : ENABLED ResumeSession(v) )

\* the second chained cycle is suspended and its session has ended without
\* a decision
C28_Witness ==
    /\ session = "closed"
    /\ result = "error"
    /\ interrupted
    /\ last_exit = "interrupted"
    /\ sent_payload # <<>>
    /\ state.chained
    /\ Len(invoked) = 1

\* the resume values that read "true" when case is ignored
TrueSpellings == {"true", "TRUE"}

\* C29: the decision message of the session that showed the payload sets
\* user_approved to TRUE exactly when its resume value is a spelling of
\* "true" and to FALSE otherwise, changing nothing else of the checkpoint
\* and invoking nothing; with user_approved FALSE execute_approved_tools
\* cancels without invoking a tool; a wait that ends without a resume value
\* ends the session with an error, the checkpoint and the invocations
\* unchanged.
C29_DecisionReading ==
    [][ /\ \A v \in ResumeValues :
             Decide(v) =>
               /\ state' = [state EXCEPT !.user_approved = (v \in TrueSpellings)]
               /\ invoked' = invoked
        /\ (next_node = "execute_approved_tools" /\ ~state.user_approved
               /\ next_node' # next_node)
             => /\ invoked' = invoked
                /\ state'.final_response = CANCELLED_RESPONSE
        /\ (session = "awaiting" /\ session' = "closed")
             => /\ result' = "error"
                /\ state' = state
                /\ invoked' = invoked
      ]_vars

\* a first decision has been read as an approval and the stream is about to
\* resume
C29_Witness ==
    /\ session = "open"
    /\ resuming
    /\ interrupted
    /\ decision = "approve"
    /\ state.user_approved
    /\ state.iter_count = 0
    /\ invoked = <<>>

\* C30: whenever execute_approved_tools has returned with final_response
\* set (success, cancellation, nothing to execute or failure), the state
\* has user_approved and requires_approval FALSE, actions_to_review cleared
\* and tool_calls and identified_actions empty.
C30_FinalStateIsCleared ==
    (last_exit \in ExecutionExits /\ state.final_response # <<>>)
    => /\ ~state.user_approved
       /\ ~state.requires_approval
       /\ state.actions_to_review = <<>>
       /\ state.tool_calls = <<>>
       /\ state.identified_actions = <<>>
====
